---- MODULE Spec2Model ----
(***************************************************************************)
(* Commit cloud reference coordinators                                     *)
(* (eden/mononoke/commit_cloud/src/references.rs).                         *)
(*                                                                         *)
(* update_references_data and rename_all thread one SQL transaction        *)
(* through a fixed sequence of awaited store calls.  The store calls       *)
(* themselves (update_heads, update_bookmarks, update_remote_bookmarks,    *)
(* update_snapshots, the Update<T> implementations) and the transaction    *)
(* of the sql crate live outside references.rs; they are modelled from     *)
(* the written specification: a transaction collects statements, holds    *)
(* the workspaces it wrote until it is resolved, and installs all of its   *)
(* statements at commit or none of them when it is dropped.                *)
(***************************************************************************)
EXTENDS Integers, Sequences, FiniteSets, TLC

\* ------------------------------------------------------------------ bounds
MaxCalls == 2
MaxReads == 2
MaxWrites == 1
MaxHeads == 2
MaxSnapshots == 1

\* ------------------------------------------------------------- data model
Clients == {"c1", "c2"}
Repos == {"r1", "r2"}
Workspaces == {"w1", "w2"}
Keys == Repos \X Workspaces
Commits == {1, 2}

\* the workspace identities the modelled clients address (ctx.reponame,
\* ctx.workspace); the other repository only holds rows
CallKeys == {k \in Keys : k[1] = "r1"}

RefTables == {"heads", "local_bookmarks", "remote_bookmarks", "snapshots"}
AuxTables == {"checkout_locations", "history"}
SetTables == RefTables \cup AuxTables
Tables == SetTables \cup {"versions"}

NoVersion == [ver |-> 0, ts |-> 0]

\* UpdateReferencesParams: one addition and one removal list per kind.
NoDelta == [add |-> {}, rem |-> {}]
ParamChoices ==
  { [heads |-> [add |-> {2}, rem |-> {1}],
     local_bookmarks |-> [add |-> {2}, rem |-> {}],
     remote_bookmarks |-> [add |-> {1}, rem |-> {}],
     snapshots |-> [add |-> {1}, rem |-> {}]],
    [heads |-> [add |-> {1}, rem |-> {}],
     local_bookmarks |-> NoDelta,
     remote_bookmarks |-> NoDelta,
     snapshots |-> NoDelta],
    [heads |-> NoDelta,
     local_bookmarks |-> NoDelta,
     remote_bookmarks |-> NoDelta,
     snapshots |-> NoDelta] }

NoParams == [heads |-> NoDelta, local_bookmarks |-> NoDelta,
             remote_bookmarks |-> NoDelta, snapshots |-> NoDelta]

\* store, call, started: the entity stores and the coordinator calls;
\* reader: a fetch_references / fetch_smartlog_references call;
\* cast: a cast_references_data call
VARIABLES store, call, started, reader, cast

vars == <<store, call, started, reader, cast>>

\* ------------------------------------------------------- store statements
NewKey(op) == <<op.key[1], op.new>>

DeltaOp(table, key, d) ==
  [t |-> "delta", table |-> table, key |-> key, new |-> key[2],
   add |-> d.add, rem |-> d.rem, ts |-> 0]

BumpOp(key, now) ==
  [t |-> "bump", table |-> "versions", key |-> key, new |-> key[2],
   add |-> {}, rem |-> {}, ts |-> now]

RenameOp(table, key, new) ==
  [t |-> "rename", table |-> table, key |-> key, new |-> new,
   add |-> {}, rem |-> {}, ts |-> 0]

ApplyRename(s, op) ==
  LET old == op.key
      nk == NewKey(op)
      tb == s[op.table]
  IN IF nk = old THEN s
     ELSE IF op.table = "versions"
       THEN IF tb[old].ver = 0 THEN s
            ELSE [s EXCEPT ![op.table] =
                    [k \in Keys |-> IF k = nk THEN tb[old]
                                    ELSE IF k = old THEN NoVersion
                                    ELSE tb[k]]]
       ELSE [s EXCEPT ![op.table] =
               [k \in Keys |-> IF k = nk THEN tb[nk] \cup tb[old]
                               ELSE IF k = old THEN {}
                               ELSE tb[k]]]

ApplyOp(s, op) ==
  CASE op.t = "delta" ->
         [s EXCEPT ![op.table][op.key] = (@ \ op.rem) \cup op.add]
    [] op.t = "bump" ->
         [s EXCEPT !["versions"][op.key] = [ver |-> @.ver + 1, ts |-> op.ts]]
    [] op.t = "rename" -> ApplyRename(s, op)

RECURSIVE Replay(_, _)
Replay(ops, s) ==
  IF ops = <<>> THEN s ELSE Replay(Tail(ops), ApplyOp(s, Head(ops)))

\* one version row per workspace: moving a version row onto an existing one
\* is a constraint violation
RenameConflict(s, op) ==
  /\ op.t = "rename"
  /\ op.table = "versions"
  /\ NewKey(op) # op.key
  /\ s["versions"][op.key].ver > 0
  /\ s["versions"][NewKey(op)].ver > 0

OpKeys(op) == IF op.t = "rename" THEN {op.key, NewKey(op)} ELSE {op.key}

\* ------------------------------------------------------------ transaction
NoTxn == [state |-> "none", ops |-> <<>>, gen |-> 0, bumped |-> FALSE]
FreshTxn == [state |-> "open", ops |-> <<>>, gen |-> 0, bumped |-> FALSE]

Dropped(txn) == [txn EXCEPT !.state = "dropped"]

Held(c) ==
  IF call[c].txn.state = "open"
    THEN UNION {OpKeys(call[c].txn.ops[i]) : i \in 1..Len(call[c].txn.ops)}
    ELSE {}

HeldByOthers(c) == UNION {Held(d) : d \in Clients \ {c}}

View(c) == Replay(call[c].txn.ops, store)

\* ------------------------------------------ store calls used by the file
\* update_heads / update_bookmarks / update_remote_bookmarks /
\* update_snapshots: remove the removal list, insert the addition list, and
\* advance the workspace's version row once per transaction.
SubUpdateNoBump(txn, kind, key, params, now) ==
  [txn EXCEPT !.ops = @ \o <<DeltaOp(kind, key, params[kind])>>,
              !.gen = @ + 1]

SubUpdateBumpsEachTime(txn, kind, key, params, now) ==
  [txn EXCEPT
     !.ops = @ \o <<DeltaOp(kind, key, params[kind]), BumpOp(key, now)>>,
     !.bumped = TRUE,
     !.gen = @ + 1]

SubUpdate(txn, kind, key, params, now) ==
  [txn EXCEPT
     !.ops = @ \o <<DeltaOp(kind, key, params[kind])>>
               \o (IF txn.bumped THEN <<>> ELSE <<BumpOp(key, now)>>),
     !.bumped = TRUE,
     !.gen = @ + 1]

\* Update::<T>::update with UpdateWorkspaceNameArgs (and, for the version
\* row, UpdateVersionArgs::WorkspaceName): re-key the rows of one table.
UpdateName(txn, table, key, new) ==
  [txn EXCEPT !.ops = Append(@, RenameOp(table, key, new)), !.gen = @ + 1]

\* rows matched by the statement in the transaction's view
AffectedRows(s, table, key) ==
  IF table = "versions"
    THEN (IF s[table][key].ver > 0 THEN 1 ELSE 0)
    ELSE Cardinality(s[table][key])

\* ------------------------------------------------------------ call record
\* log is the sequence of store calls the coordinator issued, each with the
\* generation of the transaction handle it was given and its outcome; rows
\* is the affected-row count each successful table update reported
IdleCall ==
  [op |-> "none", key |-> <<"r1", "w1">>, new |-> "w1", params |-> NoParams,
   now |-> 0, pc |-> "idle", pos |-> 0, inflight |-> {}, log |-> <<>>,
   txn |-> NoTxn, result |-> "none", retTxn |-> FALSE, count |-> -1,
   rows |-> <<>>, pre |-> <<>>]

Resolved == {"idle", "failed", "committed", "rolledback"}

Issued(cl, kind) ==
  [cl EXCEPT !.inflight = @ \cup {kind},
             !.log = Append(@, [kind |-> kind, gen |-> cl.txn.gen,
                                res |-> "pending"])]

Outcome(cl, res) == [cl EXCEPT !.log[Len(cl.log)].res = res]

\* ------------------------------------------------- update_references_data
UpdateOrderBookmarksFirst ==
  <<"local_bookmarks", "heads", "remote_bookmarks", "snapshots">>

UpdateOrderNoSnapshots == <<"heads", "local_bookmarks", "remote_bookmarks">>

UpdateOrder == <<"heads", "local_bookmarks", "remote_bookmarks", "snapshots">>

UpdateFailReturnsTxn(cl) ==
  [cl EXCEPT !.pc = "returned", !.result = "ok", !.inflight = {},
             !.retTxn = TRUE]

\* the `?` after each awaited sub-update: the error is returned at once and
\* the transaction that was moved into the sub-update is gone
UpdateFail(cl) ==
  [cl EXCEPT !.pc = "failed", !.result = "err", !.inflight = {},
             !.txn = Dropped(@), !.retTxn = FALSE]

UpdateOkCommits(cl, s) ==
  [cl |-> [cl EXCEPT !.pc = "returned", !.result = "ok", !.retTxn = TRUE],
   store |-> Replay(cl.txn.ops, s)]

\* Ok(txn): the transaction goes back to the caller, the store is untouched
UpdateOk(cl, s) ==
  [cl |-> [cl EXCEPT !.pc = "returned", !.result = "ok", !.retTxn = TRUE],
   store |-> s]

\* every sub-update is awaited before the next statement runs
UpdateCanIssue(cl) == cl.inflight = {}

CallUpdate(c, key, params) ==
  /\ call[c].pc \in Resolved
  /\ started < MaxCalls
  /\ started' = started + 1
  /\ call' = [call EXCEPT ![c] =
       [IdleCall EXCEPT !.op = "update", !.key = key, !.params = params,
                        !.now = started + 1, !.pc = "running",
                        !.txn = FreshTxn]]
  /\ UNCHANGED <<store, reader, cast>>

UpdateIssue(c) ==
  LET cl == call[c] IN
  /\ cl.op = "update"
  /\ cl.pc = "running"
  /\ UpdateCanIssue(cl)
  /\ cl.pos < Len(UpdateOrder)
  /\ call' = [call EXCEPT ![c] = Issued(cl, UpdateOrder[cl.pos + 1])]
  /\ UNCHANGED <<store, started, reader, cast>>

UpdateReturn(c, ok) ==
  LET cl == call[c] IN
  /\ cl.op = "update"
  /\ cl.pc = "running"
  /\ cl.inflight # {}
  /\ \E kind \in cl.inflight :
       IF ok
         THEN /\ cl.key \notin HeldByOthers(c)
              /\ LET nx == [Outcome(cl, "ok") EXCEPT
                              !.txn = SubUpdate(@, kind, cl.key, cl.params,
                                                cl.now),
                              !.inflight = @ \ {kind},
                              !.pos = @ + 1]
                     r == IF nx.pos = Len(UpdateOrder)
                            THEN UpdateOk(nx, store)
                            ELSE [cl |-> nx, store |-> store]
                 IN /\ call' = [call EXCEPT ![c] = r.cl]
                    /\ store' = r.store
         ELSE /\ call' = [call EXCEPT ![c] = UpdateFail(Outcome(cl, "err"))]
              /\ UNCHANGED store
  /\ UNCHANGED <<started, reader, cast>>

\* -------------------------------------------------------------- rename_all
RenameOrderVersionEarly ==
  <<"heads", "local_bookmarks", "remote_bookmarks", "snapshots",
    "checkout_locations", "versions", "history">>

RenameOrderNoHistory ==
  <<"heads", "local_bookmarks", "remote_bookmarks", "snapshots",
    "checkout_locations", "versions">>

RenameOrderNoCheckout ==
  <<"heads", "local_bookmarks", "remote_bookmarks", "snapshots", "history",
    "versions">>

RenameOrder ==
  <<"heads", "local_bookmarks", "remote_bookmarks", "snapshots",
    "checkout_locations", "history", "versions">>

RenameFailReturnsTxn(cl) ==
  [cl EXCEPT !.pc = "returned", !.result = "ok", !.inflight = {},
             !.retTxn = TRUE, !.count = 0]

\* the `?` after each awaited table update
RenameFail(cl) ==
  [cl EXCEPT !.pc = "failed", !.result = "err", !.inflight = {},
             !.txn = Dropped(@), !.retTxn = FALSE]

RenameOkHistoryCount(cl, s, affected) ==
  [cl |-> [cl EXCEPT !.pc = "returned", !.result = "ok", !.retTxn = TRUE,
                     !.count = cl.rows[6]],
   store |-> s]

\* Ok((txn, affected_rows)): affected_rows is bound by the version update
\* only, the counts of the six earlier updates are discarded into `_`
RenameOk(cl, s, affected) ==
  [cl |-> [cl EXCEPT !.pc = "returned", !.result = "ok", !.retTxn = TRUE,
                     !.count = affected],
   store |-> s]

RenameCanIssue(cl) == cl.inflight = {}

RenameCtxHistoryOtherRepo(cl, table) ==
  IF table = "history" THEN <<"r2", cl.key[2]>> ELSE cl.key

\* every update is given cc_ctx.clone(): the caller's (repository, workspace)
RenameCtx(cl, table) == cl.key

CallRename(c, key, new) ==
  /\ call[c].pc \in Resolved
  /\ started < MaxCalls
  /\ started' = started + 1
  /\ call' = [call EXCEPT ![c] =
       [IdleCall EXCEPT !.op = "rename", !.key = key, !.new = new,
                        !.now = started + 1, !.pc = "starting"]]
  /\ UNCHANGED <<store, reader, cast>>

\* sql.connections.write_connection.start_transaction().await?
RenameStart(c, ok) ==
  LET cl == call[c] IN
  /\ cl.op = "rename"
  /\ cl.pc = "starting"
  /\ call' = [call EXCEPT ![c] =
       IF ok THEN [cl EXCEPT !.pc = "running", !.txn = FreshTxn]
             ELSE [cl EXCEPT !.pc = "failed", !.result = "err"]]
  /\ UNCHANGED <<store, started, reader, cast>>

RenameIssue(c) ==
  LET cl == call[c] IN
  /\ cl.op = "rename"
  /\ cl.pc = "running"
  /\ RenameCanIssue(cl)
  /\ cl.pos < Len(RenameOrder)
  /\ call' = [call EXCEPT ![c] = Issued(cl, RenameOrder[cl.pos + 1])]
  /\ UNCHANGED <<store, started, reader, cast>>

RenameReturn(c, ok) ==
  LET cl == call[c] IN
  /\ cl.op = "rename"
  /\ cl.pc = "running"
  /\ cl.inflight # {}
  /\ \E table \in cl.inflight :
       LET ctx == RenameCtx(cl, table)
           op == RenameOp(table, ctx, cl.new)
       IN
       IF ok
         THEN /\ OpKeys(op) \cap HeldByOthers(c) = {}
              /\ ~RenameConflict(View(c), op)
              /\ LET affected == AffectedRows(View(c), table, ctx)
                     nx == [Outcome(cl, "ok") EXCEPT
                              !.txn = UpdateName(@, table, ctx, cl.new),
                              !.rows = Append(@, affected),
                              !.inflight = @ \ {table},
                              !.pos = @ + 1]
                     r == IF nx.pos = Len(RenameOrder)
                            THEN RenameOk(nx, store, affected)
                            ELSE [cl |-> nx, store |-> store]
                 IN /\ call' = [call EXCEPT ![c] = r.cl]
                    /\ store' = r.store
         ELSE /\ call' = [call EXCEPT ![c] = RenameFail(Outcome(cl, "err"))]
              /\ UNCHANGED store
  /\ UNCHANGED <<started, reader, cast>>

\* ------------------------------------------------------------- the caller
\* the caller owns the returned transaction: it commits it or drops it
Commit(c) ==
  LET cl == call[c] IN
  /\ cl.pc = "returned"
  /\ cl.retTxn
  /\ cl.txn.state = "open"
  /\ store' = Replay(cl.txn.ops, store)
  /\ call' = [call EXCEPT ![c] =
       [cl EXCEPT !.pc = "committed", !.txn.state = "committed",
                  !.pre = store]]
  /\ UNCHANGED <<started, reader, cast>>

Rollback(c) ==
  LET cl == call[c] IN
  /\ cl.pc = "returned"
  /\ cl.retTxn
  /\ cl.txn.state = "open"
  /\ call' = [call EXCEPT ![c] =
       [cl EXCEPT !.pc = "rolledback", !.txn = Dropped(@)]]
  /\ UNCHANGED <<store, started, reader, cast>>

\* ---------------------------------------------------------------- readers
\* sql.get / sql.get_as_map read the committed rows of one table for
\* (repository, workspace): get as a sequence in the table's row order,
\* get_as_map keyed by commit
RECURSIVE RowOrder(_)
RowOrder(S) ==
  IF S = {} THEN <<>>
  ELSE LET m == CHOOSE x \in S : \A y \in S : x <= y
       IN <<m>> \o RowOrder(S \ {m})

GetUnstable(s, table, key) ==
  LET q == RowOrder(s[table][key]) IN
  IF reader.n = 2 THEN [i \in 1..Len(q) |-> q[Len(q) + 1 - i]] ELSE q

Get(s, table, key) == RowOrder(s[table][key])

GetAsMap(s, table, key) == [c \in s[table][key] |-> <<table, c>>]

\* Option<T>
None == [some |-> FALSE, val |-> <<>>]
Some(v) == [some |-> TRUE, val |-> v]

SmartlogFlags ==
  {"AddAllBookmarks", "AddRemoteBookmarks", "SkipPublicCommitsMetadata"}

NoData ==
  [heads |-> <<>>, local_bookmarks |-> <<>>, remote_bookmarks |-> <<>>,
   snapshots |-> <<>>]

NoPrev == [valid |-> FALSE, key |-> <<"r1", "w1">>, out |-> None,
           clean |-> FALSE]

\* log: the store reads issued, with their outcome; data: what the reads
\* returned so far; out: the value handed to the caller; clean: no
\* mutation was committed since the call started; prev: the previous
\* completed fetch_references call
IdleReader ==
  [op |-> "none", key |-> <<"r1", "w1">>, flags |-> {}, pc |-> "idle",
   log |-> <<>>, data |-> NoData, result |-> "none", out |-> None,
   flat |-> <<>>, collapsed |-> FALSE, clean |-> TRUE, prev |-> NoPrev,
   n |-> 0]

ReaderResolved == {"idle", "done", "failed"}

StartReader(op, key, flags) ==
  [IdleReader EXCEPT
     !.op = op, !.key = key, !.flags = flags, !.pc = "reading",
     !.n = reader.n + 1,
     !.prev = IF reader.op = "fetch" /\ reader.pc = "done"
                THEN [valid |-> TRUE, key |-> reader.key,
                      out |-> reader.out, clean |-> reader.clean]
                ELSE reader.prev]

ReadDone(rd, kind, res, v) ==
  [rd EXCEPT !.log = Append(@, [kind |-> kind, res |-> res]),
             !.data[kind] = v]

\* --------------------------------------------------------- fetch_references
FetchOrder == <<"heads", "local_bookmarks", "remote_bookmarks", "snapshots">>

FetchFailReturnsPartial(rd) ==
  [rd EXCEPT !.pc = "done", !.result = "ok",
             !.out = Some([heads |-> rd.data["heads"],
                           local_bookmarks |-> rd.data["local_bookmarks"],
                           remote_bookmarks |-> rd.data["remote_bookmarks"],
                           snapshots |-> rd.data["snapshots"]])]

\* the `?` after each awaited get
FetchFail(rd) == [rd EXCEPT !.pc = "failed", !.result = "err", !.out = None]

\* Ok(RawReferencesData { heads, local_bookmarks, remote_bookmarks,
\* snapshots })
FetchOk(rd) ==
  [rd EXCEPT !.pc = "done", !.result = "ok",
             !.out = Some([heads |-> rd.data["heads"],
                           local_bookmarks |-> rd.data["local_bookmarks"],
                           remote_bookmarks |-> rd.data["remote_bookmarks"],
                           snapshots |-> rd.data["snapshots"]])]

CallFetch(key) ==
  /\ reader.pc \in ReaderResolved
  /\ reader.n < MaxReads
  /\ reader' = StartReader("fetch", key, {})
  /\ UNCHANGED <<store, call, started, cast>>

FetchRead(ok) ==
  /\ reader.op = "fetch"
  /\ reader.pc = "reading"
  /\ Len(reader.log) < Len(FetchOrder)
  /\ LET kind == FetchOrder[Len(reader.log) + 1] IN
     IF ok
       THEN LET nx == ReadDone(reader, kind, "ok", Get(store, kind, reader.key))
            IN reader' = IF Len(nx.log) = Len(FetchOrder) THEN FetchOk(nx)
                         ELSE nx
       ELSE reader' = FetchFail(ReadDone(reader, kind, "err", <<>>))
  /\ UNCHANGED <<store, call, started, cast>>

\* ------------------------------------------------ fetch_smartlog_references
SmartlogReadsAll(flags) ==
  <<"heads", "local_bookmarks", "remote_bookmarks">>

\* heads always; each bookmark map only when its flag is in the slice
SmartlogReads(flags) ==
  <<"heads">>
    \o (IF "AddAllBookmarks" \in flags THEN <<"local_bookmarks">> ELSE <<>>)
    \o (IF "AddRemoteBookmarks" \in flags THEN <<"remote_bookmarks">>
        ELSE <<>>)

SmartlogFail(rd) == [rd EXCEPT !.pc = "failed", !.result = "err", !.out = None]

\* Ok(RawSmartlogData { heads, local_bookmarks, remote_bookmarks })
SmartlogOk(rd) ==
  [rd EXCEPT
     !.pc = "done", !.result = "ok",
     !.out = Some([heads |-> rd.data["heads"],
                   local_bookmarks |->
                     IF "AddAllBookmarks" \in rd.flags
                       THEN Some(rd.data["local_bookmarks"]) ELSE None,
                   remote_bookmarks |->
                     IF "AddRemoteBookmarks" \in rd.flags
                       THEN Some(rd.data["remote_bookmarks"]) ELSE None])]

CallSmartlog(key, flags) ==
  /\ reader.pc \in ReaderResolved
  /\ reader.n < MaxReads
  /\ reader' = StartReader("smartlog", key, flags)
  /\ UNCHANGED <<store, call, started, cast>>

SmartlogRead(ok) ==
  /\ reader.op = "smartlog"
  /\ reader.pc = "reading"
  /\ Len(reader.log) < Len(SmartlogReads(reader.flags))
  /\ LET kind == SmartlogReads(reader.flags)[Len(reader.log) + 1]
         v == IF kind = "heads" THEN Get(store, kind, reader.key)
              ELSE GetAsMap(store, kind, reader.key)
     IN
     IF ok
       THEN LET nx == ReadDone(reader, kind, "ok", v)
            IN reader' = IF Len(nx.log) = Len(SmartlogReads(reader.flags))
                           THEN SmartlogOk(nx) ELSE nx
       ELSE reader' = SmartlogFail(ReadDone(reader, kind, "err", <<>>))
  /\ UNCHANGED <<store, call, started, cast>>

\* -------------------------------------------------------- collapse_into_vec
\* the orders in which a HashMap may yield its keys
KeyOrders(m) ==
  {q \in [1..Cardinality(DOMAIN m) -> DOMAIN m] :
     \A i, j \in DOMAIN q : i # j => q[i] # q[j]}

collapse_local_first(self, rq, lq) ==
  self.heads
    \o (IF self.local_bookmarks.some THEN lq ELSE <<>>)
    \o (IF self.remote_bookmarks.some THEN rq ELSE <<>>)

\* heads, then the keys of remote_bookmarks if Some, then the keys of
\* local_bookmarks if Some; rq and lq are the key orders the maps yield
collapse_into_vec(self, rq, lq) ==
  self.heads
    \o (IF self.remote_bookmarks.some THEN rq ELSE <<>>)
    \o (IF self.local_bookmarks.some THEN lq ELSE <<>>)

Collapse ==
  /\ reader.op = "smartlog"
  /\ reader.pc = "done"
  /\ ~reader.collapsed
  /\ \E rq \in KeyOrders(reader.out.val.remote_bookmarks.val),
        lq \in KeyOrders(reader.out.val.local_bookmarks.val) :
       reader' = [reader EXCEPT
                    !.flat = collapse_into_vec(reader.out.val, rq, lq),
                    !.collapsed = TRUE]
  /\ UNCHANGED <<store, call, started, cast>>

\* ------------------------------------------ committed calls of other clients
RECURSIVE UpdateTxn(_, _, _, _, _)
UpdateTxn(txn, i, key, params, now) ==
  IF i > Len(UpdateOrder) THEN txn
  ELSE UpdateTxn(SubUpdate(txn, UpdateOrder[i], key, params, now), i + 1,
                 key, params, now)

RECURSIVE RenameTxn(_, _, _, _)
RenameTxn(txn, i, key, new) ==
  IF i > Len(RenameOrder) THEN txn
  ELSE RenameTxn(UpdateName(txn, RenameOrder[i], key, new), i + 1, key, new)

Mutated(ops) ==
  /\ started < MaxWrites
  /\ started' = started + 1
  /\ store' = Replay(ops, store)
  /\ reader' = [reader EXCEPT !.clean = FALSE, !.prev.clean = FALSE]
  /\ UNCHANGED <<call, cast>>

CommitUpdate(key, params) ==
  Mutated(UpdateTxn(FreshTxn, 1, key, params, started + 1).ops)

CommitRename(key, new) ==
  /\ \A i \in 1..Len(RenameOrder) :
       ~RenameConflict(store, RenameOp(RenameOrder[i], key, new))
  /\ Mutated(RenameTxn(FreshTxn, 1, key, new).ops)

\* ------------------------------------------------------------------- cast
\* HgChangesetId -> HgId (`.into()`): the same hash as the wire type
HgId(c) == <<"HgId", c>>

\* the bonsai changeset a resolved commit maps to, and its author date
Bonsai(c) == <<"bonsai", c>>
AuthorDate(b) == 1000 + b[2]

SeqsUpTo(S, n) == UNION {[1..k -> S] : k \in 0..n}

LocalBookmark(n, c) == [name |-> n, commit |-> c]
RemoteBookmark(n, c) == [remote |-> "remote", name |-> n, commit |-> c]

\* RawReferencesData as the reference fetcher can return it: local
\* bookmarks unique by name, remote bookmarks unique by (remote, name)
RawStates ==
  [heads : SeqsUpTo(Commits, MaxHeads),
   local_bookmarks :
     {<<>>, <<LocalBookmark("a", 1)>>,
      <<LocalBookmark("b", 1), LocalBookmark("a", 2)>>,
      <<LocalBookmark("a", 2), LocalBookmark("b", 2)>>},
   remote_bookmarks :
     {<<>>, <<RemoteBookmark("a", 2)>>,
      <<RemoteBookmark("b", 2), RemoteBookmark("a", 1)>>},
   snapshots : SeqsUpTo(Commits, MaxSnapshots)]

EmptyRaw == [heads |-> <<>>, local_bookmarks |-> <<>>,
             remote_bookmarks |-> <<>>, snapshots |-> <<>>]

NoError == [kind |-> "none", commit |-> 0]

\* the arguments of a call and its locals: mapping and derive are what the
\* two collaborators answer for each commit; lookups is the sequence of
\* commits passed to get_bonsai_from_hg
CastStart(raw, version, timestamp, mapping, derive) ==
  [pc |-> "heads", raw |-> raw, latest_version |-> version,
   version_timestamp |-> timestamp, mapping |-> mapping, derive |-> derive,
   i |-> 1, heads |-> <<>>, heads_dates |-> <<>>, lookups |-> <<>>,
   result |-> "none", error |-> NoError, out |-> None]

IdleCast ==
  [CastStart(EmptyRaw, 0, 0, [c \in Commits |-> "some"],
             [c \in Commits |-> "ok"]) EXCEPT !.pc = "idle"]

CastInputs ==
  {CastStart(raw, v.version, v.timestamp, mapping, derive) :
     raw \in RawStates,
     v \in {[version |-> 7, timestamp |-> 42],
            [version |-> 0, timestamp |-> -1]},
     mapping \in [Commits -> {"some", "none", "err"}],
     derive \in [Commits -> {"ok", "err"}]}

\* HashMap::insert
Insert(m, k, v) == [x \in DOMAIN m \cup {k} |-> IF x = k THEN v ELSE m[x]]

CastError(cs, kind, commit) ==
  [cs EXCEPT !.pc = "failed", !.result = "err",
             !.error = [kind |-> kind, commit |-> commit]]

\* the iteration with the head put in front of the list instead of at its end
CastHeadStepPrepends(cs) ==
  LET commit == cs.raw.heads[cs.i]
      pushed == [cs EXCEPT !.heads = <<HgId(commit)>> \o @,
                           !.lookups = Append(@, commit)]
  IN CASE cs.mapping[commit] = "err" -> CastError(pushed, "storage", commit)
       [] cs.mapping[commit] = "none" ->
            CastError(pushed, "not_found", commit)
       [] cs.mapping[commit] = "some" ->
            IF cs.derive[commit] = "err"
              THEN CastError(pushed, "storage", commit)
              ELSE [pushed EXCEPT
                      !.heads_dates =
                        Insert(@, HgId(commit), AuthorDate(Bonsai(commit))),
                      !.i = @ + 1]

\* the iteration with a head that has no mapping entry dropped silently
CastHeadStepSkipsMissing(cs) ==
  LET commit == cs.raw.heads[cs.i]
      pushed == [cs EXCEPT !.heads = Append(@, HgId(commit)),
                           !.lookups = Append(@, commit)]
  IN CASE cs.mapping[commit] = "err" -> CastError(pushed, "storage", commit)
       [] cs.mapping[commit] = "none" ->
            [cs EXCEPT !.lookups = Append(@, commit), !.i = @ + 1]
       [] cs.mapping[commit] = "some" ->
            IF cs.derive[commit] = "err"
              THEN CastError(pushed, "storage", commit)
              ELSE [pushed EXCEPT
                      !.heads_dates =
                        Insert(@, HgId(commit), AuthorDate(Bonsai(commit))),
                      !.i = @ + 1]

\* the iteration with a head that is already in the list not pushed again
CastHeadStepDedups(cs) ==
  LET commit == cs.raw.heads[cs.i]
      seen == \E j \in 1..Len(cs.heads) : cs.heads[j] = HgId(commit)
      pushed == [cs EXCEPT !.heads = IF seen THEN @
                                     ELSE Append(@, HgId(commit)),
                           !.lookups = Append(@, commit)]
  IN CASE cs.mapping[commit] = "err" -> CastError(pushed, "storage", commit)
       [] cs.mapping[commit] = "none" ->
            CastError(pushed, "not_found", commit)
       [] cs.mapping[commit] = "some" ->
            IF cs.derive[commit] = "err"
              THEN CastError(pushed, "storage", commit)
              ELSE [pushed EXCEPT
                      !.heads_dates =
                        Insert(@, HgId(commit), AuthorDate(Bonsai(commit))),
                      !.i = @ + 1]

\* one iteration of `for head in raw_references_data.heads`
CastHeadStep(cs) ==
  LET commit == cs.raw.heads[cs.i]
      pushed == [cs EXCEPT !.heads = Append(@, HgId(commit)),
                           !.lookups = Append(@, commit)]
  IN CASE cs.mapping[commit] = "err" -> CastError(pushed, "storage", commit)
       [] cs.mapping[commit] = "none" ->
            CastError(pushed, "not_found", commit)
       [] cs.mapping[commit] = "some" ->
            IF cs.derive[commit] = "err"
              THEN CastError(pushed, "storage", commit)
              ELSE [pushed EXCEPT
                      !.heads_dates =
                        Insert(@, HgId(commit), AuthorDate(Bonsai(commit))),
                      !.i = @ + 1]

RECURSIVE Bookmarks(_)
Bookmarks(q) ==
  IF q = <<>> THEN <<>>
  ELSE Insert(Bookmarks(SubSeq(q, 1, Len(q) - 1)), q[Len(q)].name,
              HgId(q[Len(q)].commit))

\* the remaining loops with every snapshot looked up in the mapping first
CastRestResolvesSnapshots(cs) ==
  IF \E j \in 1..Len(cs.raw.snapshots) : cs.mapping[cs.raw.snapshots[j]] # "some"
  THEN LET j == CHOOSE j \in 1..Len(cs.raw.snapshots) :
                  /\ cs.mapping[cs.raw.snapshots[j]] # "some"
                  /\ \A k \in 1..(j - 1) :
                       cs.mapping[cs.raw.snapshots[k]] = "some"
       IN CastError(cs,
                    IF cs.mapping[cs.raw.snapshots[j]] = "none"
                      THEN "not_found" ELSE "storage",
                    cs.raw.snapshots[j])
  ELSE
  [cs EXCEPT
     !.pc = "done", !.result = "ok",
     !.out = Some(
       [version |-> cs.latest_version,
        heads |-> Some(cs.heads),
        bookmarks |-> Some(Bookmarks(cs.raw.local_bookmarks)),
        heads_dates |-> Some(cs.heads_dates),
        remote_bookmarks |->
          Some([j \in 1..Len(cs.raw.remote_bookmarks) |->
                  [remote |-> cs.raw.remote_bookmarks[j].remote,
                   name |-> cs.raw.remote_bookmarks[j].name,
                   node |-> Some(HgId(cs.raw.remote_bookmarks[j].commit))]]),
        snapshots |->
          Some([j \in 1..Len(cs.raw.snapshots) |->
                  HgId(cs.raw.snapshots[j])]),
        timestamp |-> Some(cs.version_timestamp)])]

\* the three remaining loops and Ok(ReferencesData { .. })
CastRestStep(cs) ==
  [cs EXCEPT
     !.pc = "done", !.result = "ok",
     !.out = Some(
       [version |-> cs.latest_version,
        heads |-> Some(cs.heads),
        bookmarks |-> Some(Bookmarks(cs.raw.local_bookmarks)),
        heads_dates |-> Some(cs.heads_dates),
        remote_bookmarks |->
          Some([j \in 1..Len(cs.raw.remote_bookmarks) |->
                  [remote |-> cs.raw.remote_bookmarks[j].remote,
                   name |-> cs.raw.remote_bookmarks[j].name,
                   node |-> Some(HgId(cs.raw.remote_bookmarks[j].commit))]]),
        snapshots |->
          Some([j \in 1..Len(cs.raw.snapshots) |->
                  HgId(cs.raw.snapshots[j])]),
        timestamp |-> Some(cs.version_timestamp)])]

CastHead ==
  /\ cast.pc = "heads"
  /\ cast.i <= Len(cast.raw.heads)
  /\ cast' = CastHeadStep(cast)
  /\ UNCHANGED <<store, call, started, reader>>

CastRest ==
  /\ cast.pc = "heads"
  /\ cast.i > Len(cast.raw.heads)
  /\ cast' = CastRestStep(cast)
  /\ UNCHANGED <<store, call, started, reader>>

\* ------------------------------------------------------------------ model
EmptyStore ==
  [t \in Tables |-> [k \in Keys |-> IF t = "versions" THEN NoVersion ELSE {}]]

\* one workspace per repository already synced once, the others not created
InitStore ==
  [t \in Tables |->
     [k \in Keys |->
        IF k \in {<<"r1", "w1">>, <<"r2", "w1">>}
          THEN (IF t = "versions" THEN [ver |-> 1, ts |-> 0] ELSE {1})
          ELSE (IF t = "versions" THEN NoVersion ELSE {})]]

Init ==
  /\ store = InitStore
  /\ call = [c \in Clients |-> IdleCall]
  /\ started = 0
  /\ reader = IdleReader
  /\ cast = IdleCast

Next ==
  \/ \E c \in Clients, k \in CallKeys, p \in ParamChoices :
       CallUpdate(c, k, p)
  \/ \E c \in Clients : UpdateIssue(c)
  \/ \E c \in Clients, ok \in BOOLEAN : UpdateReturn(c, ok)
  \/ \E c \in Clients, k \in CallKeys, w \in Workspaces :
       CallRename(c, k, w)
  \/ \E c \in Clients, ok \in BOOLEAN : RenameStart(c, ok)
  \/ \E c \in Clients : RenameIssue(c)
  \/ \E c \in Clients, ok \in BOOLEAN : RenameReturn(c, ok)
  \/ \E c \in Clients : Commit(c)
  \/ \E c \in Clients : Rollback(c)

Spec == Init /\ [][Next]_vars

\* the flag sets the smartlog fetcher is called with
FlagChoices ==
  {f \in SUBSET SmartlogFlags :
     "SkipPublicCommitsMetadata" \in f => Cardinality(f) # 2}

NextRead ==
  \/ \E k \in CallKeys : CallFetch(k)
  \/ \E ok \in BOOLEAN : FetchRead(ok)
  \/ \E k \in CallKeys, f \in FlagChoices : CallSmartlog(k, f)
  \/ \E ok \in BOOLEAN : SmartlogRead(ok)
  \/ Collapse
  \/ \E k \in CallKeys, p \in ParamChoices : CommitUpdate(k, p)
  \/ \E k \in CallKeys, w \in Workspaces : CommitRename(k, w)

SpecRead == Init /\ [][NextRead]_vars

InitCast ==
  /\ store = InitStore
  /\ call = [c \in Clients |-> IdleCall]
  /\ started = 0
  /\ reader = IdleReader
  /\ cast \in CastInputs

NextCast == CastHead \/ CastRest

SpecCast == InitCast /\ [][NextCast]_vars

PcValues ==
  {"idle", "starting", "running", "returned", "failed", "committed",
   "rolledback"}

TypeOK ==
  /\ started \in 0..MaxCalls
  /\ \A c \in Clients :
       /\ call[c].pc \in PcValues
       /\ call[c].op \in {"none", "update", "rename"}
       /\ call[c].pos \in 0..Len(RenameOrder)
       /\ call[c].txn.state \in {"none", "open", "dropped", "committed"}
  /\ \A t \in SetTables, k \in Keys : store[t][k] \subseteq Commits
  /\ \A k \in Keys : store["versions"][k].ver \in 0..(1 + MaxCalls)

\* ------------------------------------------------------------ properties
IsRename(c) == call[c].op = "rename"
IsUpdate(c) == call[c].op = "update"
Stepped(c) == call'[c] # call[c]
Commits_(c) == call[c].pc = "returned" /\ call'[c].pc = "committed"

\* the store with every row of (repository, old workspace) re-keyed
RenamedEverywhere(s, key, new) ==
  LET nk == <<key[1], new>> IN
  [t \in Tables |->
     [k \in Keys |->
        IF nk = key THEN s[t][k]
        ELSE IF t = "versions"
          THEN (IF s[t][key].ver = 0 THEN s[t][k]
                ELSE IF k = nk THEN s[t][key]
                ELSE IF k = key THEN NoVersion
                ELSE s[t][k])
          ELSE (IF k = nk THEN s[t][nk] \cup s[t][key]
                ELSE IF k = key THEN {}
                ELSE s[t][k])]]

\* C1: every step of a rename_all call and of the resolution of its
\* transaction leaves the committed store either as it was or with all
\* seven tables re-keyed to the new workspace name; no step installs a
\* rename of only some of the tables.
RenameAtomicity ==
  [][\A c \in Clients :
       (IsRename(c) /\ Stepped(c)) =>
          \/ store' = store
          \/ store' = RenamedEverywhere(store, call[c].key, call[c].new)]_vars

RenameAtomicityWitness ==
  \E c \in Clients :
    /\ IsRename(c)
    /\ call[c].pc = "committed"
    /\ \A t \in Tables : call[c].pre[t][call[c].key] # EmptyStore[t][call[c].key]
    /\ store = RenamedEverywhere(call[c].pre, call[c].key, call[c].new)
    /\ store # call[c].pre

\* the four reference tables with every delta list of the call applied
DeltasApplied(s, key, p) ==
  [t \in SetTables |->
     IF t \in RefTables
       THEN [k \in Keys |->
               IF k = key THEN (s[t][k] \ p[t].rem) \cup p[t].add
               ELSE s[t][k]]
       ELSE s[t]]

\* C2: every step of an update_references_data call and of the resolution
\* of its transaction leaves the committed reference tables either as they
\* were or with the deltas of all four kinds applied; no step installs the
\* deltas of only some kinds.
UpdateAtomicity ==
  [][\A c \in Clients :
       (IsUpdate(c) /\ Stepped(c)) =>
          \/ \A t \in SetTables : store'[t] = store[t]
          \/ \A t \in SetTables :
               store'[t] = DeltasApplied(store, call[c].key, call[c].params)[t]]_vars

UpdateAtomicityWitness ==
  \E c \in Clients :
    /\ IsUpdate(c)
    /\ call[c].pc = "committed"
    /\ \A t \in RefTables :
         /\ store[t][call[c].key] # call[c].pre[t][call[c].key]
         /\ store[t] = DeltasApplied(call[c].pre, call[c].key, call[c].params)[t]

Ver(s, key) == s["versions"][key].ver

RenameCommits == \E c \in Clients : IsRename(c) /\ Commits_(c)

\* C3: the version number of a workspace never decreases in a step that is
\* not the commit of a rename, and the commit of every successful
\* update_references_data call makes the version of its workspace strictly
\* larger, whatever other clients' calls are interleaved.
VersionMonotonicity ==
  [][/\ ~RenameCommits => \A k \in Keys : Ver(store', k) >= Ver(store, k)
     /\ \A c \in Clients :
          (IsUpdate(c) /\ Commits_(c)) =>
             Ver(store', call[c].key) > Ver(store, call[c].key)]_vars

\* two successful Update calls on the workspace that started at version 1
VersionMonotonicityWitness ==
  /\ Ver(store, <<"r1", "w1">>) = 3
  /\ \A c \in Clients : IsUpdate(c) /\ call[c].pc = "committed"

\* C4: a step of an update_references_data call that changes a reference
\* table is the commit of its transaction, and that same step advances the
\* version row of the call's workspace by exactly one; every committed
\* Update call advances it by exactly one.
VersionPairing ==
  [][\A c \in Clients :
       (IsUpdate(c) /\ Stepped(c)) =>
          /\ (\E t \in RefTables : store'[t] # store[t]) => Commits_(c)
          /\ Commits_(c) =>
               Ver(store', call[c].key) = Ver(store, call[c].key) + 1
          /\ ~Commits_(c) => store'["versions"] = store["versions"]]_vars

VersionPairingWitness ==
  \E c \in Clients :
    /\ IsUpdate(c)
    /\ call[c].pc = "committed"
    /\ \A t \in RefTables :
         store[t][call[c].key] # call[c].pre[t][call[c].key]
    /\ Ver(store, call[c].key) = Ver(call[c].pre, call[c].key) + 1
    /\ store["versions"][call[c].key].ts = call[c].now

NoRows(s, key) == \A t \in Tables : s[t][key] = EmptyStore[t][key]

RenamesAway(c) == IsRename(c) /\ <<call[c].key[1], call[c].new>> # call[c].key

\* C5 as stated: once a rename has committed, no table holds a row keyed by
\* the old workspace name, whatever other clients do afterwards.
NoStaleWorkspaceName ==
  \A c \in Clients :
    (RenamesAway(c) /\ call[c].pc = "committed") => NoRows(store, call[c].key)

\* C5: the commit of a rename_all transaction to a different name leaves no
\* row of any of the seven tables keyed by the old workspace name in the
\* committed store it produces (rows under that name can appear again when
\* a call addressing the old name commits later).
RenameCommitLeavesNoStaleName ==
  [][\A c \in Clients :
       (RenamesAway(c) /\ Commits_(c)) => NoRows(store', call[c].key)]_vars

RenameCommitLeavesNoStaleNameWitness ==
  \E c \in Clients :
    /\ RenamesAway(c)
    /\ call[c].pc = "committed"
    /\ \A t \in Tables : call[c].pre[t][call[c].key] # EmptyStore[t][call[c].key]
    /\ NoRows(store, call[c].key)
    /\ ~NoRows(store, <<call[c].key[1], call[c].new>>)

\* the log is a prefix of the expected call order; only its last call can be
\* unfinished or failed; call i was given the handle returned by call i-1
InOrder(cl, order) ==
  /\ Len(cl.log) <= Len(order)
  /\ \A i \in 1..Len(cl.log) :
       /\ cl.log[i].kind = order[i]
       /\ cl.log[i].gen = i - 1
       /\ i < Len(cl.log) => cl.log[i].res = "ok"
  /\ Cardinality(cl.inflight) <= 1
  /\ \A k \in cl.inflight :
       /\ cl.log # <<>>
       /\ cl.log[Len(cl.log)].kind = k
       /\ cl.log[Len(cl.log)].res = "pending"

\* C6: the store calls issued so far by an update_references_data call are
\* a prefix of heads, local bookmarks, remote bookmarks, snapshots; a call
\* is issued only when all earlier ones returned successfully, with the
\* transaction handle the previous one returned, and at most one sub-update
\* is in flight.
UpdateOrdering ==
  \A c \in Clients :
    IsUpdate(c) =>
      InOrder(call[c],
              <<"heads", "local_bookmarks", "remote_bookmarks", "snapshots">>)

UpdateOrderingWitness ==
  \E c \in Clients :
    /\ IsUpdate(c)
    /\ call[c].pc = "returned"
    /\ Len(call[c].log) = 4
    /\ \A i \in 1..4 : call[c].log[i].res = "ok"
    /\ Len(call[c].txn.ops) = 5

\* C7: the store calls issued so far by a rename_all call are a prefix of
\* heads, local bookmarks, remote bookmarks, snapshots, checkout locations,
\* history, versions, all on the one transaction the call started itself;
\* the version update is issued only after the six others succeeded.
RenameOrdering ==
  \A c \in Clients :
    IsRename(c) =>
      /\ InOrder(call[c],
                 <<"heads", "local_bookmarks", "remote_bookmarks",
                   "snapshots", "checkout_locations", "history", "versions">>)
      /\ call[c].pc = "starting" => (call[c].log = <<>> /\ call[c].txn = NoTxn)
      /\ call[c].pc = "running" =>
           Len(call[c].txn.ops) = call[c].pos
      /\ (\E i \in 1..Len(call[c].log) : call[c].log[i].kind = "versions") =>
           (call[c].pos >= 6 /\
            \A t \in SetTables :
              \E i \in 1..Len(call[c].log) :
                call[c].log[i].kind = t /\ call[c].log[i].res = "ok")

RenameOrderingWitness ==
  \E c \in Clients :
    /\ IsRename(c)
    /\ call[c].pc = "returned"
    /\ Len(call[c].log) = 7
    /\ call[c].log[7] = [kind |-> "versions", gen |-> 6, res |-> "ok"]
    /\ Len(call[c].txn.ops) = 7

FailedCalls(cl) == {i \in 1..Len(cl.log) : cl.log[i].res = "err"}

\* C8: when one of the six table updates before the version update fails in
\* rename_all, it is the last store call of the call: the version update
\* and the later table updates are never issued, the call returns the
\* error, and neither a row count nor the transaction reaches the caller.
RenameFailureStops ==
  \A c \in Clients :
    IsRename(c) =>
      \A i \in FailedCalls(call[c]) :
        call[c].log[i].kind # "versions" =>
          /\ i = Len(call[c].log)
          /\ \A j \in 1..Len(call[c].log) : call[c].log[j].kind # "versions"
          /\ call[c].pc = "failed"
          /\ call[c].result = "err"
          /\ call[c].count = -1
          /\ ~call[c].retTxn
          /\ call[c].txn.state = "dropped"

RenameFailureStopsWitness ==
  \E c \in Clients :
    /\ IsRename(c)
    /\ call[c].pc = "failed"
    /\ Len(call[c].log) = 3
    /\ call[c].log[3] = [kind |-> "remote_bookmarks", gen |-> 2, res |-> "err"]
    /\ call[c].result = "err"

\* C9: when the k-th sub-update of update_references_data fails, it is the
\* last store call of the call, the call returns the error without a
\* transaction, and no step of that call changes the committed store.
UpdateFailureStops ==
  /\ [](\A c \in Clients :
          IsUpdate(c) =>
            \A i \in FailedCalls(call[c]) :
              /\ i = Len(call[c].log)
              /\ call[c].pos = i - 1
              /\ call[c].pc = "failed"
              /\ call[c].result = "err"
              /\ ~call[c].retTxn
              /\ call[c].txn.state = "dropped")
  /\ [][\A c \in Clients :
          (IsUpdate(c) /\ Stepped(c) /\ FailedCalls(call[c]) # {}) =>
             store' = store]_vars

UpdateFailureStopsWitness ==
  \E c \in Clients :
    /\ IsUpdate(c)
    /\ call[c].pc = "failed"
    /\ call[c].pos = 2
    /\ call[c].log[3].res = "err"
    /\ call[c].params["heads"].add = {2}
    /\ 2 \notin store["heads"][call[c].key]

\* C10: update_references_data and rename_all hand the transaction back
\* open, and the committed store changes only in the step in which a
\* caller commits a returned transaction, never in a step of a coordinator.
CoordinatorsNeverCommit ==
  /\ [](\A c \in Clients :
          call[c].pc = "returned" =>
            (call[c].retTxn /\ call[c].txn.state = "open"))
  /\ [][\A c \in Clients :
          (Stepped(c) /\ ~Commits_(c)) => store' = store]_vars

CoordinatorsNeverCommitWitness ==
  \E c \in Clients :
    /\ call[c].pc = "returned"
    /\ call[c].txn.state = "open"
    /\ call[c].txn.ops # <<>>
    /\ Replay(call[c].txn.ops, store) # store
    /\ store = InitStore

\* C11: a rename_all call that succeeded returns exactly the affected-row
\* count the version-row update reported, which is the number of version
\* rows of the old workspace, whatever the six earlier updates reported.
RenameResult ==
  \A c \in Clients :
    (IsRename(c) /\ call[c].result = "ok") =>
      /\ Len(call[c].rows) = 7
      /\ call[c].count = call[c].rows[7]
      /\ call[c].pc = "returned" =>
           call[c].count = (IF Ver(store, call[c].key) > 0 THEN 1 ELSE 0)

\* the version update reported one row, the history update none
RenameResultWitness ==
  \E c \in Clients :
    /\ IsRename(c)
    /\ call[c].pc = "returned"
    /\ call[c].count = 1
    /\ call[c].rows[6] = 0
    /\ call[c].log[7].kind = "versions"

\* C20: the commit of a rename_all transaction changes no row of any
\* workspace other than the caller's (repository, old workspace) and the
\* (repository, new workspace) it moves them to, in none of the seven
\* tables and in no other repository; the moved rows keep their contents,
\* and the version row keeps its number and timestamp.
RenameFrame ==
  [][\A c \in Clients :
       (IsRename(c) /\ Commits_(c)) =>
          LET old == call[c].key
              nk == <<call[c].key[1], call[c].new>>
          IN /\ \A t \in Tables, k \in Keys \ {old, nk} :
                  store'[t][k] = store[t][k]
             /\ (nk # old /\ ~NoRows(store, old)) =>
                  \A t \in Tables : store'[t][nk] = store[t][old]
             /\ (nk = old \/ NoRows(store, old)) => store' = store]_vars

\* a workspace at version 2 was moved while the other repository kept a
\* workspace of the same name
RenameFrameWitness ==
  \E c \in Clients :
    LET old == call[c].key
        nk == <<call[c].key[1], call[c].new>>
    IN /\ RenamesAway(c)
       /\ call[c].pc = "committed"
       /\ Ver(call[c].pre, old) = 2
       /\ call[c].pre["versions"][old].ts > 0
       /\ \A t \in Tables : store[t][nk] = call[c].pre[t][old]
       /\ ~NoRows(store, <<"r2", old[2]>>)
       /\ \A t \in Tables, k \in Keys \ {old, nk} :
            store[t][k] = call[c].pre[t][k]

\* ------------------------------------------------------ reader properties
Kinds(log) == [i \in 1..Len(log) |-> log[i].kind]

IsPrefix(p, q) == Len(p) <= Len(q) /\ \A i \in 1..Len(p) : p[i] = q[i]

Slice(q, a, n) == [i \in 1..n |-> q[a + i]]

Occurrences(q, x) == Cardinality({i \in 1..Len(q) : q[i] = x})

\* C14: collapse_into_vec returns the heads in fetch order, then every key
\* of the remote-bookmark map once (if the map is present), then every key
\* of the local-bookmark map once (if present); nothing is deduplicated
\* across the three parts and the smartlog data itself is left as fetched.
CollapseOrder ==
  reader.collapsed =>
    LET d == reader.out.val
        R == IF d.remote_bookmarks.some THEN DOMAIN d.remote_bookmarks.val
             ELSE {}
        L == IF d.local_bookmarks.some THEN DOMAIN d.local_bookmarks.val
             ELSE {}
        h == Len(d.heads)
        r == Cardinality(R)
        l == Cardinality(L)
    IN /\ Len(reader.flat) = h + r + l
       /\ Slice(reader.flat, 0, h) = d.heads
       /\ \A x \in Commits :
            /\ Occurrences(Slice(reader.flat, h, r), x) =
                 (IF x \in R THEN 1 ELSE 0)
            /\ Occurrences(Slice(reader.flat, h + r, l), x) =
                 (IF x \in L THEN 1 ELSE 0)
       /\ d.heads = reader.data["heads"]
       /\ d.remote_bookmarks.some => d.remote_bookmarks.val = reader.data["remote_bookmarks"]
       /\ d.local_bookmarks.some => d.local_bookmarks.val = reader.data["local_bookmarks"]

\* head 2, remote-bookmark commit 1, local-bookmark commits 2 and 1
CollapseOrderWitness ==
  /\ reader.collapsed
  /\ reader.flat = <<2, 1, 2, 1>>
  /\ DOMAIN reader.out.val.remote_bookmarks.val = {1}

SmartlogFlagGating ==
  reader.op = "smartlog" =>
    LET wanted ==
          <<"heads">>
            \o (IF "AddAllBookmarks" \in reader.flags
                  THEN <<"local_bookmarks">> ELSE <<>>)
            \o (IF "AddRemoteBookmarks" \in reader.flags
                  THEN <<"remote_bookmarks">> ELSE <<>>)
    IN /\ IsPrefix(Kinds(reader.log), wanted)
       /\ reader.pc \in {"done", "failed"} => reader.log # <<>>
       /\ reader.pc = "done" =>
            /\ Kinds(reader.log) = wanted
            /\ reader.out.some
            /\ reader.out.val.heads = reader.data["heads"]
            /\ reader.out.val.local_bookmarks =
                 (IF "AddAllBookmarks" \in reader.flags
                    THEN Some(reader.data["local_bookmarks"]) ELSE None)
            /\ reader.out.val.remote_bookmarks =
                 (IF "AddRemoteBookmarks" \in reader.flags
                    THEN Some(reader.data["remote_bookmarks"]) ELSE None)

\* local bookmarks requested and empty, remote bookmarks not requested
SmartlogFlagGatingWitness ==
  /\ reader.op = "smartlog"
  /\ reader.pc = "done"
  /\ reader.flags = {"AddAllBookmarks"}
  /\ Kinds(reader.log) = <<"heads", "local_bookmarks">>
  /\ reader.out.val.local_bookmarks.some
  /\ DOMAIN reader.out.val.local_bookmarks.val = {}
  /\ ~reader.out.val.remote_bookmarks.some

\* C18: fetch_references issues its reads in the order heads, local
\* bookmarks, remote bookmarks, snapshots; a failed read is the last read
\* of the call, the call returns the error and no state, and a state is
\* returned only after all four reads succeeded.
FetchAllOrNothing ==
  reader.op = "fetch" =>
    /\ IsPrefix(Kinds(reader.log),
                <<"heads", "local_bookmarks", "remote_bookmarks",
                  "snapshots">>)
    /\ \A i \in 1..Len(reader.log) :
         reader.log[i].res = "err" =>
           /\ i = Len(reader.log)
           /\ reader.pc = "failed"
           /\ reader.result = "err"
           /\ ~reader.out.some
    /\ reader.out.some =>
         /\ reader.pc = "done"
         /\ Len(reader.log) = 4
         /\ \A i \in 1..4 : reader.log[i].res = "ok"
         /\ \A t \in RefTables : reader.out.val[t] = reader.data[t]

FetchAllOrNothingWitness ==
  /\ reader.op = "fetch"
  /\ reader.pc = "failed"
  /\ Len(reader.log) = 3
  /\ reader.log[3] = [kind |-> "remote_bookmarks", res |-> "err"]
  /\ reader.data["heads"] # <<>>
  /\ ~reader.out.some

\* ------------------------------------------------------------- cast claims
CastFinished == cast.pc \in {"done", "failed"}

HeadResolves(c) == cast.mapping[c] = "some" /\ cast.derive[c] = "ok"

AllHeadsResolve ==
  \A i \in 1..Len(cast.raw.heads) : HeadResolves(cast.raw.heads[i])

\* positions of the heads that have no entry in the commit mapping
MissingHeads ==
  {i \in 1..Len(cast.raw.heads) : cast.mapping[cast.raw.heads[i]] = "none"}

FirstMissing == CHOOSE i \in MissingHeads : \A j \in MissingHeads : i <= j

\* C12: when every head resolves, the cast returns a payload whose heads
\* are the raw heads in order, whose heads_dates maps each head to the
\* author date of its commit, whose bookmarks map each local bookmark name
\* to its commit, whose remote bookmarks and snapshots are the raw ones in
\* order, and whose version and timestamp are the two values passed in.
CastCorrect ==
  (CastFinished /\ AllHeadsResolve) =>
    /\ cast.pc = "done"
    /\ cast.out.some
    /\ LET p == cast.out.val
           raw == cast.raw
       IN /\ p.heads = Some([i \in 1..Len(raw.heads) |-> HgId(raw.heads[i])])
          /\ p.heads_dates.some
          /\ DOMAIN p.heads_dates.val =
               {HgId(raw.heads[i]) : i \in 1..Len(raw.heads)}
          /\ \A i \in 1..Len(raw.heads) :
               p.heads_dates.val[HgId(raw.heads[i])] =
                 AuthorDate(Bonsai(raw.heads[i]))
          /\ p.bookmarks.some
          /\ DOMAIN p.bookmarks.val =
               {raw.local_bookmarks[i].name :
                  i \in 1..Len(raw.local_bookmarks)}
          /\ \A i \in 1..Len(raw.local_bookmarks) :
               p.bookmarks.val[raw.local_bookmarks[i].name] =
                 HgId(raw.local_bookmarks[i].commit)
          /\ p.remote_bookmarks.some
          /\ Len(p.remote_bookmarks.val) = Len(raw.remote_bookmarks)
          /\ \A i \in 1..Len(raw.remote_bookmarks) :
               p.remote_bookmarks.val[i] =
                 [remote |-> raw.remote_bookmarks[i].remote,
                  name |-> raw.remote_bookmarks[i].name,
                  node |-> Some(HgId(raw.remote_bookmarks[i].commit))]
          /\ p.snapshots =
               Some([i \in 1..Len(raw.snapshots) |-> HgId(raw.snapshots[i])])
          /\ p.version = cast.latest_version
          /\ p.timestamp = Some(cast.version_timestamp)

CastCorrectWitness ==
  /\ cast.pc = "done"
  /\ cast.raw.heads = <<2, 1>>
  /\ cast.out.val.heads = Some(<<HgId(2), HgId(1)>>)
  /\ cast.out.val.heads_dates.val[HgId(2)] = AuthorDate(Bonsai(2))
  /\ Len(cast.raw.local_bookmarks) = 1
  /\ Len(cast.raw.remote_bookmarks) = 1
  /\ Len(cast.raw.snapshots) = 1
  /\ cast.out.val.version = 7
  /\ cast.out.val.timestamp = Some(42)

\* C13: when some head has no entry in the commit mapping, the cast fails
\* and returns no payload; no head after the first such head is looked up;
\* and when every head before it resolves, the error names that head.
CastMissingHeadFails ==
  MissingHeads # {} =>
    /\ Len(cast.lookups) <= FirstMissing
    /\ IsPrefix(cast.lookups, cast.raw.heads)
    /\ ~cast.out.some
    /\ cast.pc # "done"
    /\ CastFinished =>
         /\ cast.pc = "failed"
         /\ cast.result = "err"
         /\ (\A j \in 1..(FirstMissing - 1) : HeadResolves(cast.raw.heads[j]))
              => /\ cast.error = [kind |-> "not_found",
                                  commit |-> cast.raw.heads[FirstMissing]]
                 /\ Len(cast.lookups) = FirstMissing

CastMissingHeadFailsWitness ==
  /\ cast.pc = "failed"
  /\ cast.raw.heads = <<2, 1>>
  /\ cast.mapping[2] = "none"
  /\ HeadResolves(1)
  /\ cast.error = [kind |-> "not_found", commit |-> 2]
  /\ cast.lookups = <<2>>
  /\ ~cast.out.some

\* the snapshots that have no entry in the commit mapping
MissingSnapshots ==
  {i \in 1..Len(cast.raw.snapshots) :
     cast.mapping[cast.raw.snapshots[i]] = "none"}

\* C16 as stated: a cast over a snapshot commit that has no entry in the
\* commit mapping fails and returns no payload.
SnapshotResolutionFatal ==
  (CastFinished /\ MissingSnapshots # {}) =>
    /\ cast.pc = "failed"
    /\ ~cast.out.some

\* C16: the cast looks up heads only. Snapshots are converted without
\* consulting the commit mapping, so when every head resolves the cast
\* succeeds and lists every raw snapshot in order, whether or not the
\* snapshot has a mapping entry; a failed cast has failed on a head.
SnapshotsNotResolved ==
  /\ IsPrefix(cast.lookups, cast.raw.heads)
  /\ (CastFinished /\ AllHeadsResolve) =>
       /\ cast.pc = "done"
       /\ cast.out.val.snapshots =
            Some([i \in 1..Len(cast.raw.snapshots) |->
                    HgId(cast.raw.snapshots[i])])
  /\ cast.pc = "failed" =>
       /\ cast.lookups # <<>>
       /\ cast.error.commit = cast.lookups[Len(cast.lookups)]
       /\ ~HeadResolves(cast.error.commit)

SnapshotsNotResolvedWitness ==
  /\ cast.pc = "done"
  /\ cast.raw.snapshots = <<2>>
  /\ cast.mapping[2] = "none"
  /\ cast.raw.heads = <<1>>
  /\ cast.out.val.snapshots = Some(<<HgId(2)>>)

\* C19: when the cast succeeds, the keys of heads_dates are exactly the
\* ids that occur in heads, so heads_dates has at most as many entries as
\* heads; a head that occurs several times in the raw state occurs as
\* often in heads and has one entry in heads_dates.
HeadsDatesKeys ==
  cast.pc = "done" =>
    LET heads == cast.out.val.heads.val
        dates == cast.out.val.heads_dates.val
    IN /\ DOMAIN dates = {heads[i] : i \in 1..Len(heads)}
       /\ Cardinality(DOMAIN dates) <= Len(heads)
       /\ \A c \in Commits :
            Occurrences(heads, HgId(c)) = Occurrences(cast.raw.heads, c)

HeadsDatesKeysWitness ==
  /\ cast.pc = "done"
  /\ cast.raw.heads = <<1, 1>>
  /\ cast.out.val.heads = Some(<<HgId(1), HgId(1)>>)
  /\ DOMAIN cast.out.val.heads_dates.val = {HgId(1)}

====
